---- MODULE Spec2Model ----
\* Model of searx/botdetection/_helpers.py: the client-address resolver
\* get_real_ip, the once-only error logger _log_error_only_once and the
\* network computation get_network.
\*
\* A Python str is a finite sequence of lexemes.  A lexeme is either a single
\* character with a meaning to the code ("," and " ") or an opaque run of other
\* characters (an address literal, or text that is no address).  An optional
\* value (a header that may be missing, request.remote_addr that may be None)
\* is a record [set, val]: None is [set |-> FALSE, val |-> <<>>].
EXTENDS Integers, Sequences, FiniteSets, TLC

VARIABLES
    cfg,             \* get_cfg(): real_ip.x_for, real_ip.ipv4_prefix, real_ip.ipv6_prefix
    _logged_errors,   \* the module-level list _logged_errors
    error_log,       \* what logger.error has written, in order
    request,         \* the request of the last get_real_ip call
    forwarded_for,   \* the local forwarded_for of that call after line 121
    warnings,        \* what logger.warning wrote during that call
    errors,          \* what logger.error wrote during that call
    ret,             \* how that call ended: [kind, val]
    missing_before,  \* history: headers that were falsy in some earlier call
    absent_before,   \* history: headers that were None in some earlier call
    base,            \* history: request and result of the unspoofed call
    pc,              \* per thread: position inside _log_error_only_once
    arg,             \* per thread: err_msg of the running call
    net_addr,        \* argument real_ip of the last get_network call (version 0: none yet)
    network          \* result of the last get_network call

vars == <<cfg, _logged_errors, error_log, request, forwarded_for, warnings, errors,
          ret, missing_before, absent_before, base, pc, arg, net_addr, network>>

resolverVars == <<request, forwarded_for, warnings, errors, ret>>
historyVars  == <<missing_before, absent_before>>
threadVars   == <<pc, arg>>
networkVars  == <<net_addr, network>>

----------------------------------------------------------------------------
\* Bounds of the model.

MaxHdrLen    == 3   \* lexemes in an X-Forwarded-For value (single calls)
MaxSeqHdrLen == 1   \* lexemes in an X-Forwarded-For value (call sequences)
MaxSpoof     == 1   \* lexemes a client puts in front of the chain
MaxXFor      == 2   \* largest configured real_ip.x_for
NThreads     == 2   \* request-handling threads

----------------------------------------------------------------------------
\* Strings and optional values.

None    == [set |-> FALSE, val |-> <<>>]
Some(s) == [set |-> TRUE, val |-> s]

\* Python truthiness of an optional str: None and '' are falsy.
Truthy(o) == o.set /\ o.val # <<>>

Whitespace == {" "}

RECURSIVE lstrip(_)
lstrip(s) == IF s # <<>> /\ s[1] \in Whitespace THEN lstrip(Tail(s)) ELSE s

RECURSIVE rstrip(_)
rstrip(s) ==
    IF s # <<>> /\ s[Len(s)] \in Whitespace THEN rstrip(SubSeq(s, 1, Len(s) - 1)) ELSE s

\* str.strip()
strip(s) == rstrip(lstrip(s))

\* str.split(','): always at least one piece.
RECURSIVE split(_)
split(s) ==
    IF \A i \in 1..Len(s) : s[i] # ","
    THEN <<s>>
    ELSE LET k == CHOOSE i \in 1..Len(s) :
                      s[i] = "," /\ \A j \in 1..(i - 1) : s[j] # ","
         IN  <<SubSeq(s, 1, k - 1)>> \o split(SubSeq(s, k + 1, Len(s)))

Min(a, b) == IF a < b THEN a ELSE b

\* list[i] with Python's index rules: a negative index counts from the end,
\* an index outside the list raises IndexError.
PyIndex(list, i) ==
    LET n == Len(list)
        j == IF i < 0 THEN i + n ELSE i
    IN  IF 0 <= j /\ j < n
        THEN [kind |-> "returned", val |-> list[j + 1]]
        ELSE [kind |-> "raised", val |-> <<"IndexError">>]

----------------------------------------------------------------------------
\* Variants of _log_error_only_once with a slip in them.
\* The membership test of line 75 left out.
log_error_every_time(st, err_msg) ==
    [store |-> Append(st.store, err_msg), log |-> Append(st.log, err_msg)]

\* The list rebound to the new message instead of appended to.
log_error_keep_last(st, err_msg) ==
    IF \A i \in 1..Len(st.store) : st.store[i] # err_msg
    THEN [store |-> <<err_msg>>, log |-> Append(st.log, err_msg)]
    ELSE st

\* _log_error_only_once, run without interruption:
\* st is [store |-> _logged_errors, log |-> logger.error output].

_log_error_only_once(st, err_msg) ==
    IF \A i \in 1..Len(st.store) : st.store[i] # err_msg
    THEN [store |-> Append(st.store, err_msg), log |-> Append(st.log, err_msg)]
    ELSE st

MSG_XFF == "X-Forwarded-For header is not set!"
MSG_RIP == "X-Real-IP header is not set!"

----------------------------------------------------------------------------
\* get_real_ip.

\* Variants of the entry selection with a slip in them.
\* forwarded_for[-1]: the trust depth ignored.
select_entry_last(list, x_for) == PyIndex(list, 0 - 1)

\* forwarded_for[-x_for]: the clamp to the list's length left out.
select_entry_unclamped(list, x_for) == PyIndex(list, 0 - x_for)

\* forwarded_for[min(len(forwarded_for), x_for) - 1]: counted from the front.
select_entry_from_front(list, x_for) == PyIndex(list, Min(Len(list), x_for) - 1)

\* forwarded_for[-min(len(forwarded_for), x_for)]
select_entry(list, x_for) == PyIndex(list, 0 - Min(Len(list), x_for))

\* [x.strip() for x in forwarded_for.split(',')]
stripped_entries(s) == LET parts == split(s) IN [i \in 1..Len(parts) |-> strip(parts[i])]

\* Variant of the comparisons with elif in place of the second and third if.
cross_check_first_only(ff, real_ip, remote_addr) ==
    IF Truthy(ff) /\ Truthy(real_ip) /\ ff.val # real_ip.val
    THEN <<[what |-> "X-Real-IP / X-Forwarded-For", a |-> real_ip.val, b |-> ff.val]>>
    ELSE IF Truthy(ff) /\ Truthy(remote_addr) /\ ff.val # remote_addr.val
    THEN <<[what |-> "WSGI environment / X-Forwarded-For", a |-> remote_addr.val, b |-> ff.val]>>
    ELSE IF Truthy(real_ip) /\ Truthy(remote_addr) /\ real_ip.val # remote_addr.val
    THEN <<[what |-> "WSGI environment / X-Real-IP", a |-> remote_addr.val, b |-> real_ip.val]>>
    ELSE <<>>

\* The three comparisons of lines 126-135, in program order.
cross_check(ff, real_ip, remote_addr) ==
    (IF Truthy(ff) /\ Truthy(real_ip) /\ ff.val # real_ip.val
     THEN <<[what |-> "X-Real-IP / X-Forwarded-For", a |-> real_ip.val, b |-> ff.val]>>
     ELSE <<>>)
    \o
    (IF Truthy(ff) /\ Truthy(remote_addr) /\ ff.val # remote_addr.val
     THEN <<[what |-> "WSGI environment / X-Forwarded-For", a |-> remote_addr.val, b |-> ff.val]>>
     ELSE <<>>)
    \o
    (IF Truthy(real_ip) /\ Truthy(remote_addr) /\ real_ip.val # remote_addr.val
     THEN <<[what |-> "WSGI environment / X-Real-IP", a |-> remote_addr.val, b |-> real_ip.val]>>
     ELSE <<>>)

\* Variant of the return expression: remote_addr or real_ip or forwarded_for.
first_truthy_peer_first(ff, real_ip, remote_addr) ==
    IF Truthy(remote_addr) THEN remote_addr.val
    ELSE IF Truthy(real_ip) THEN real_ip.val
    ELSE IF Truthy(ff) THEN ff.val
    ELSE <<"0.0.0.0">>

\* forwarded_for or real_ip or remote_addr or '0.0.0.0'
first_truthy(ff, real_ip, remote_addr) ==
    IF Truthy(ff) THEN ff.val
    ELSE IF Truthy(real_ip) THEN real_ip.val
    ELSE IF Truthy(remote_addr) THEN remote_addr.val
    ELSE <<"0.0.0.0">>

\* One whole call of get_real_ip on request req with _logged_errors = store
\* and real_ip.x_for = x_for: the new store, what was logged, the local
\* forwarded_for and how the call ended.
resolve(req, store, x_for) ==
    LET st0 == [store |-> store, log |-> <<>>]
        st1 == IF ~Truthy(req.xff) THEN _log_error_only_once(st0, MSG_XFF) ELSE st0
        sel == IF Truthy(req.xff)
               THEN select_entry(stripped_entries(req.xff.val), x_for)
               ELSE [kind |-> "returned", val |-> <<>>]
        ff  == IF Truthy(req.xff) THEN Some(sel.val) ELSE req.xff
        st2 == IF ~Truthy(req.real_ip) THEN _log_error_only_once(st1, MSG_RIP) ELSE st1
    IN  IF sel.kind = "raised"
        THEN [store |-> st1.store, errors |-> st1.log, forwarded_for |-> req.xff,
              warnings |-> <<>>, ret |-> sel]
        ELSE [store |-> st2.store, errors |-> st2.log, forwarded_for |-> ff,
              warnings |-> cross_check(ff, req.real_ip, req.remote_addr),
              ret |-> [kind |-> "returned",
                       val |-> first_truthy(ff, req.real_ip, req.remote_addr)]]

Falsy(req) == {h \in {"xff", "real_ip"} : ~Truthy(req[h])}
Unset(req) == {h \in {"xff", "real_ip"} : ~req[h].set}

NoRequest == [xff |-> None, real_ip |-> None, remote_addr |-> None]
NoCall    == [kind |-> "none", val |-> <<>>]

get_real_ip(req) ==
    LET out == resolve(req, _logged_errors, cfg.x_for) IN
    /\ _logged_errors' = out.store
    /\ error_log' = error_log \o out.errors
    /\ request' = req
    /\ forwarded_for' = out.forwarded_for
    /\ warnings' = out.warnings
    /\ errors' = out.errors
    /\ ret' = out.ret
    /\ missing_before' = IF ret.kind = "none" THEN {} ELSE missing_before \cup Falsy(request)
    /\ absent_before' = IF ret.kind = "none" THEN {} ELSE absent_before \cup Unset(request)
    /\ UNCHANGED <<cfg, threadVars, networkVars>>

----------------------------------------------------------------------------
\* Requests.

XffLexemes == {"203.0.113.55", "bogus", ",", " "}

\* The lexemes of the header values used where many requests follow each other.
SeqLexemes == {"203.0.113.55", ","}

StringsOver(lexemes, n) == UNION {[1..k -> lexemes] : k \in 0..n}

Strings(n) == StringsOver(XffLexemes, n)

XffValues(strings) == {None} \cup {Some(s) : s \in strings}

RealIpValues == {None, Some(<<>>), Some(<<"203.0.113.55">>), Some(<<"2001:db8::1">>)}

RemoteAddrValues == {None, Some(<<"203.0.113.55">>), Some(<<"198.51.100.7">>)}

Requests(strings) ==
    [xff : XffValues(strings), real_ip : RealIpValues, remote_addr : RemoteAddrValues]

Threads == 1..NThreads

InitCommon ==
    /\ _logged_errors = <<>>
    /\ error_log = <<>>
    /\ request = NoRequest
    /\ forwarded_for = None
    /\ warnings = <<>>
    /\ errors = <<>>
    /\ ret = NoCall
    /\ missing_before = {}
    /\ absent_before = {}
    /\ base = [request |-> NoRequest, ret |-> NoCall]
    /\ pc = [t \in Threads |-> "idle"]
    /\ arg = [t \in Threads |-> MSG_XFF]
    /\ net_addr = [version |-> 0, groups |-> <<>>]
    /\ network = [version |-> 0, groups |-> <<>>, prefixlen |-> 0]

----------------------------------------------------------------------------
\* Spec: one process handling requests one after the other.

Init ==
    /\ cfg \in [x_for : 1..MaxXFor, ipv4_prefix : {32}, ipv6_prefix : {48}]
    /\ InitCommon

HandleRequest == \E req \in Requests(StringsOver(SeqLexemes, MaxSeqHdrLen)) : get_real_ip(req) /\ UNCHANGED base

Next == HandleRequest

Spec == Init /\ [][Next]_vars

----------------------------------------------------------------------------
\* SpecChain: a request through the proxies, then the same request with
\* entries put in front of its X-Forwarded-For chain by the client.

spoofed(req, pre) == [req EXCEPT !.xff = Some(pre \o <<",">> \o req.xff.val)]

HonestCall ==
    /\ ret.kind = "none"
    /\ \E req \in Requests(Strings(MaxHdrLen)) :
          /\ get_real_ip(req)
          /\ base' = [request |-> req, ret |-> ret']

SpoofedCall ==
    /\ ret.kind # "none"
    /\ request = base.request
    /\ base.request.xff.set
    /\ \E pre \in Strings(MaxSpoof) : get_real_ip(spoofed(base.request, pre))
    /\ UNCHANGED base

NextChain == HonestCall \/ SpoofedCall

SpecChain == Init /\ [][NextChain]_vars

----------------------------------------------------------------------------
\* get_network.  An address is [version, groups]: four 8-bit groups for IPv4,
\* eight 16-bit groups for IPv6, most significant first.

GroupWidth(version) == IF version = 6 THEN 16 ELSE 8

\* A group with its first `keep` bits kept and the others cleared.
mask_group(g, keep, w) ==
    IF keep >= w THEN g
    ELSE IF keep <= 0 THEN 0
    ELSE g - (g % (2 ^ (w - keep)))

\* ip_network(f"{address}/{prefix}", strict=False): host bits are cleared.
ip_network(address, prefix) ==
    LET w == GroupWidth(address.version) IN
    [version   |-> address.version,
     groups    |-> [i \in 1..Len(address.groups) |->
                       mask_group(address.groups[i], prefix - (i - 1) * w, w)],
     prefixlen |-> prefix]

\* Variant of get_network with the two prefix keys exchanged.
get_network_swapped(real_ip, config) ==
    LET prefix == IF real_ip.version = 6
                  THEN config.ipv4_prefix
                  ELSE config.ipv6_prefix
    IN  ip_network(real_ip, prefix)

get_network(real_ip, config) ==
    LET prefix == IF real_ip.version = 6
                  THEN config.ipv6_prefix
                  ELSE config.ipv4_prefix
    IN  ip_network(real_ip, prefix)

Addresses ==
    { [version |-> 4, groups |-> <<203, 0, 113, 55>>],
      [version |-> 4, groups |-> <<10, 255, 255, 255>>],
      [version |-> 4, groups |-> <<198, 51, 100, 7>>],
      [version |-> 6, groups |-> <<8193, 3512, 0, 0, 0, 0, 0, 1>>],
      [version |-> 6, groups |-> <<65152, 0, 0, 0, 43981, 65535, 4660, 22136>>],
      [version |-> 6, groups |-> <<8193, 3512, 65535, 65535, 65535, 0, 0, 32769>>] }

Ipv4Prefixes == {0, 1, 8, 20, 24, 31, 32}
Ipv6Prefixes == {0, 17, 48, 56, 64, 127, 128}

InitNet ==
    /\ cfg \in [x_for : {1}, ipv4_prefix : Ipv4Prefixes, ipv6_prefix : Ipv6Prefixes]
    /\ InitCommon

GetNetwork ==
    /\ \E a \in Addresses :
          /\ net_addr' = a
          /\ network' = get_network(a, cfg)
    /\ UNCHANGED <<cfg, _logged_errors, error_log, resolverVars, historyVars, base, threadVars>>

NextNet == GetNetwork

SpecNet == InitNet /\ [][NextNet]_vars

----------------------------------------------------------------------------
\* SpecThreads: several threads inside _log_error_only_once, one line at a time.

Messages == {MSG_XFF, MSG_RIP}

threadFrame == <<cfg, resolverVars, historyVars, base, networkVars>>

\* A request handler enters _log_error_only_once(err_msg).
Call(t) ==
    /\ pc[t] = "idle"
    /\ \E m \in Messages : arg' = [arg EXCEPT ![t] = m]
    /\ pc' = [pc EXCEPT ![t] = "line75"]
    /\ UNCHANGED <<_logged_errors, error_log, threadFrame>>

\* if err_msg not in _logged_errors:
Test(t) ==
    /\ pc[t] = "line75"
    /\ pc' = [pc EXCEPT ![t] =
                IF \A i \in 1..Len(_logged_errors) : _logged_errors[i] # arg[t]
                THEN "line76" ELSE "idle"]
    /\ UNCHANGED <<arg, _logged_errors, error_log, threadFrame>>

\* logger.error(err_msg)
LogError(t) ==
    /\ pc[t] = "line76"
    /\ error_log' = Append(error_log, arg[t])
    /\ pc' = [pc EXCEPT ![t] = "line77"]
    /\ UNCHANGED <<arg, _logged_errors, threadFrame>>

\* _logged_errors.append(err_msg)
Record(t) ==
    /\ pc[t] = "line77"
    /\ _logged_errors' = Append(_logged_errors, arg[t])
    /\ pc' = [pc EXCEPT ![t] = "idle"]
    /\ UNCHANGED <<arg, error_log, threadFrame>>

NextThreads == \E t \in Threads : Call(t) \/ Test(t) \/ LogError(t) \/ Record(t)

SpecThreads == Init /\ [][NextThreads]_vars

----------------------------------------------------------------------------
\* Vocabulary of the properties, written without the operators of the model.

Range(q) == {q[i] : i \in 1..Len(q)}

Count(q, x) == Cardinality({i \in 1..Len(q) : q[i] = x})

Max(a, b) == IF a > b THEN a ELSE b

\* Number of comma-separated entries of a header value.
NEntries(s) == Count(s, ",") + 1

\* Position of the k-th comma of s (k >= 1).
CommaAt(s, k) ==
    CHOOSE i \in 1..Len(s) :
        s[i] = "," /\ Cardinality({j \in 1..i : s[j] = ","}) = k

\* Entry number k (from 0) of a header value: the text between two commas.
Entry(s, k) ==
    LET from == IF k = 0 THEN 1 ELSE CommaAt(s, k) + 1
        to   == IF k = NEntries(s) - 1 THEN Len(s) ELSE CommaAt(s, k + 1) - 1
    IN  SubSeq(s, from, to)

\* s without its leading and trailing whitespace.
Trimmed(s) ==
    LET ink == {i \in 1..Len(s) : s[i] \notin Whitespace} IN
    IF ink = {} THEN <<>>
    ELSE SubSeq(s, CHOOSE i \in ink : \A j \in ink : i <= j,
                   CHOOSE i \in ink : \A j \in ink : i >= j)

Called == ret.kind # "none"

Message(h) == IF h = "xff" THEN MSG_XFF ELSE MSG_RIP

Candidates == <<forwarded_for, request.real_ip, request.remote_addr>>

NonEmpty(o) == o.set /\ Len(o.val) > 0

\* The pairs of candidates that are both non-empty and unequal.
Disagreements ==
    {p \in {<<1, 2>>, <<1, 3>>, <<2, 3>>} :
        /\ NonEmpty(Candidates[p[1]])
        /\ NonEmpty(Candidates[p[2]])
        /\ Candidates[p[1]].val # Candidates[p[2]].val}

----------------------------------------------------------------------------
\* C1: for a present X-Forwarded-For header with n entries and trust depth
\* x_for, the chain-derived candidate is the trimmed entry at index
\* max(0, n - x_for) of the header's comma-separated entries.
C1_ChainEntryIndex ==
    (Called /\ request.xff.set) =>
        LET n == NEntries(request.xff.val) IN
        forwarded_for = Some(Trimmed(Entry(request.xff.val, Max(0, n - cfg.x_for))))

\* A three-lexeme chain of two entries under x_for = 2: the first entry is chosen.
C1_Witness ==
    /\ Called
    /\ cfg.x_for = 2
    /\ request.xff = Some(<<"bogus", ",", "203.0.113.55">>)
    /\ forwarded_for = Some(<<"bogus">>)

\* C2: the result is the first non-empty of chain-derived address, X-Real-IP
\* and peer address, and '0.0.0.0' when all three are empty or absent.
C2_PriorityOrder ==
    Called =>
        LET present == {i \in 1..3 : NonEmpty(Candidates[i])} IN
        /\ ret.kind = "returned"
        /\ ret.val = IF present = {} THEN <<"0.0.0.0">>
                     ELSE Candidates[CHOOSE i \in present : \A j \in present : i <= j].val

\* Three non-empty, pairwise different candidates: the chain-derived one wins.
C2_Witness ==
    /\ Called
    /\ Cardinality(Disagreements) = 3
    /\ ret.val = forwarded_for.val
    /\ ret.val # request.real_ip.val
    /\ ret.val # request.remote_addr.val

\* C3 as stated: each missing-header diagnostic is logged exactly once, on the
\* first call in which that header is absent, and on no other call.
C3_LoggedOnFirstAbsentCall ==
    Called =>
        \A h \in {"xff", "real_ip"} :
            /\ Message(h) \in Range(errors) <=> h \in Unset(request) \ absent_before
            /\ Count(error_log, Message(h)) =
                  IF h \in absent_before \cup Unset(request) THEN 1 ELSE 0

\* C3 as amended: each missing-header diagnostic is logged exactly once, on the
\* first call in which that header is absent or empty, and on no other call.
C3_LoggedOnFirstMissingCall ==
    Called =>
        \A h \in {"xff", "real_ip"} :
            /\ Message(h) \in Range(errors) <=> h \in Falsy(request) \ missing_before
            /\ Count(error_log, Message(h)) =
                  IF h \in missing_before \cup Falsy(request) THEN 1 ELSE 0

\* A later call that again lacks both headers logs nothing; each diagnostic
\* stays logged once.
C3_Witness ==
    /\ Called
    /\ missing_before = {"xff", "real_ip"}
    /\ Falsy(request) = {"xff", "real_ip"}
    /\ errors = <<>>
    /\ Count(error_log, MSG_XFF) = 1
    /\ Count(error_log, MSG_RIP) = 1

\* C4: every call emits one warning per pair of candidates that are both
\* non-empty and unequal, and handling the same request again emits the same
\* warnings again.
C4_WarningPerDisagreement ==
    /\ [](Called => Len(warnings) = Cardinality(Disagreements))
    /\ [][(Called /\ request' = request) => warnings' = warnings]_vars

\* Three pairwise different candidates, three warnings, in a call made after
\* earlier calls.
C4_Witness ==
    /\ Called
    /\ Cardinality(Disagreements) = 3
    /\ Len(warnings) = 3
    /\ missing_before # {}

AddressLiterals == {"203.0.113.55", "2001:db8::1", "198.51.100.7", "0.0.0.0"}

\* ipaddress.ip_address accepts exactly an address literal, nothing around it.
IsValidAddress(s) == Len(s) = 1 /\ s[1] \in AddressLiterals

\* C5: the string get_real_ip returns is a valid IPv4/IPv6 address or '0.0.0.0'.
C5_ReturnsValidAddress == Called => (ret.kind = "returned" /\ IsValidAddress(ret.val))

\* C6: get_real_ip never raises: every call returns a string.
C6_NeverRaises == ret.kind \in {"none", "returned"}

\* A chain shorter than the trust depth still yields a result.
C6_Witness ==
    /\ cfg.x_for = 2
    /\ request.xff = Some(<<"203.0.113.55">>)
    /\ request.real_ip = None
    /\ request.remote_addr = None
    /\ ret = [kind |-> "returned", val |-> <<"203.0.113.55">>]

\* Bit b (0 = most significant) of an address given by its groups of w bits.
Bit(groups, w, b) == (groups[(b \div w) + 1] \div (2 ^ (w - 1 - (b % w)))) % 2

\* C7: get_network returns the network with the prefix length configured for
\* the address's version, and with the address's bits up to the prefix and
\* zero bits after it.
C7_NetworkMasksHostBits ==
    network.version # 0 =>
        LET w == IF net_addr.version = 6 THEN 16 ELSE 8
            total == IF net_addr.version = 6 THEN 128 ELSE 32
        IN
        /\ network.version = net_addr.version
        /\ network.prefixlen = IF net_addr.version = 6 THEN cfg.ipv6_prefix
                               ELSE cfg.ipv4_prefix
        /\ Len(network.groups) = Len(net_addr.groups)
        /\ \A b \in 0..(total - 1) :
              Bit(network.groups, w, b) =
                  IF b < network.prefixlen THEN Bit(net_addr.groups, w, b) ELSE 0
        /\ \A i \in 1..Len(network.groups) : network.groups[i] \in 0..(2 ^ w - 1)
        /\ (net_addr.groups = <<203, 0, 113, 55>> /\ cfg.ipv4_prefix = 24)
              => network.groups = <<203, 0, 113, 0>>
        /\ (net_addr.groups = <<8193, 3512, 0, 0, 0, 0, 0, 1>> /\ cfg.ipv6_prefix = 48)
              => network.groups = <<8193, 3512, 0, 0, 0, 0, 0, 0>>

\* 203.0.113.55 under ipv4_prefix 24 gives 203.0.113.0/24.
C7_Witness ==
    /\ net_addr = [version |-> 4, groups |-> <<203, 0, 113, 55>>]
    /\ cfg.ipv4_prefix = 24
    /\ cfg.ipv6_prefix = 48
    /\ network = [version |-> 4, groups |-> <<203, 0, 113, 0>>, prefixlen |-> 24]

\* C8: under any interleaving of _log_error_only_once calls the store never
\* holds the same message more than once.
C8_StoreHoldsNoDuplicate ==
    \A i, j \in 1..Len(_logged_errors) : _logged_errors[i] = _logged_errors[j] => i = j

\* The later request is the earlier one with entries put in front of its chain.
IsPrepended(early, late) ==
    LET b == early.xff.val
        r == late.xff.val
    IN  /\ early.xff.set /\ late.xff.set
        /\ late.real_ip = early.real_ip
        /\ late.remote_addr = early.remote_addr
        /\ Len(r) > Len(b)
        /\ r[Len(r) - Len(b)] = ","
        /\ SubSeq(r, Len(r) - Len(b) + 1, Len(r)) = b

\* C9: when the chain has at least x_for entries, the request with entries
\* prepended to the chain resolves to the same address as the request without.
C9_PrependingKeepsResult ==
    (/\ Called
     /\ IsPrepended(base.request, request)
     /\ NEntries(base.request.xff.val) >= cfg.x_for)
    => ret = base.ret

\* A two-entry chain under x_for = 2 with a forged entry in front.
C9_Witness ==
    /\ cfg.x_for = 2
    /\ base.request.xff = Some(<<"203.0.113.55", ",", "bogus">>)
    /\ request.xff = Some(<<"bogus", ",", "203.0.113.55", ",", "bogus">>)
    /\ base.ret.val = <<"203.0.113.55">>
    /\ ret.val = <<"203.0.113.55">>

IsPrefix(p, q) == Len(p) <= Len(q) /\ SubSeq(q, 1, Len(p)) = p

\* C10: the store only grows, it holds exactly the messages logged at error
\* severity, and handling the same request again returns the same address
\* whatever the store holds by then.
C10_StoreOnlyGrows ==
    /\ [](Range(_logged_errors) = Range(error_log))
    /\ [][IsPrefix(_logged_errors, _logged_errors')]_vars
    /\ [][(Called /\ request' = request) => ret' = ret]_vars

\* Both diagnostics recorded, and a call that lacks a header adds nothing.
C10_Witness ==
    /\ Called
    /\ _logged_errors = <<MSG_RIP, MSG_XFF>>
    /\ error_log = <<MSG_RIP, MSG_XFF>>
    /\ Falsy(request) # {}
    /\ errors = <<>>

====
